---------------------------- MODULE Spec2Model ----------------------------
(* A model of sz (src/sz.go): a tool that compresses files to snappy       *)
(* archives, decompresses them, and tars directories before compressing.   *)
(*                                                                         *)
(* File names are sequences of tokens ("d", "/", "a", ".tar", ".sz", "(",  *)
(* "1", ")"), so that concat, TrimSuffix, filepath.Ext and strings.Replace *)
(* are computed on them as the code computes them on strings.  File        *)
(* contents are sequences of bytes (integers 0..255); in a tar archive the *)
(* fields of each member are kept together as one record (see TarHead).    *)
EXTENDS Integers, Sequences, FiniteSets, TLC

VARIABLES
    fs,          \* the directory tree: clean path -> [kind, ino, target]
    data,        \* inode number -> the content of that regular file
    nameOp,      \* the last naming operation run: "none", "probe", "create"
    nameAsked,   \* the candidate path the operations are handed
    nameGot,     \* the path it produced (genUnusedFilename's *filename)
    nameExisted, \* whether nameGot existed when the operation was called
    nameErr,     \* create's error result
    nameMade,    \* whether create's OpenFile made the file it opened
    splitRes,    \* what splitExt returned for nameAsked: [base, ext]
    sniffFile,   \* the open file handed to isSz and isTar
    sniffOp,     \* the last probe run: "none", "isSz", "isTar"
    sniffRes,    \* what it returned
    codecPc,     \* the codec run: "start", "snapped", "unsnapped"
    codecSrc,    \* the open source file handed to snap
    codecFast,   \* snap's fast path: "notrun", "ok", "failed"
    codecDst,    \* the file snap returned
    codecErr,    \* the error snap returned
    codecOut,    \* the file unsnap returned
    codecOutErr, \* the error unsnap returned
    tarPc,       \* tarDir and untar: "start", "walk", "closing", "built",
                 \*   "loop", "after", "done"
    tarSrc,      \* the open directory handed to tarDir
    tarWalk,     \* the paths filepath.Walk has still to visit
    ta,          \* the tarAppender: [hardLinks, twErr (the tar writer's
                 \*   sticky error)]
    tarErr,      \* tarDir's err
    tarDst,      \* tarDir's dst
    addErr,      \* the error of the add that stopped the walk, if any
    untarOrigin, \* untar's originName
    untarDstName,\* untar's dstName
    untarIdx,    \* the number of members tr.Next() has handed out
    untarErr,    \* untar's err
    untarRet,    \* what untar returned: [err, text]
    made,        \* for each member handed out, the path made for it
                 \*   (Empty when making it failed)
    failedAt,    \* the first member whose making failed (0: none)
    injected,    \* whether the system failed a call of this extraction
    mainPc,      \* the program: "init" (before init()), "loop" (in main),
                 \*   "panic" (analyze has panicked), "exited"
    trgtFiles,   \* the inputs of the command line
    results,     \* for each call of analyze so far, how it ended
    out,         \* the errors main has printed
    osArgs,      \* os.Args: the program's name, then the arguments
    doQuiet,     \* the -q flag
    dstArchive,  \* the value of the -a flag
    doSingleArchive,
    exitStatus   \* the status the process exited with, "none" before

fsVars == <<fs, data>>
nameVars == <<nameOp, nameAsked, nameGot, nameExisted, nameErr, nameMade,
              splitRes>>
sniffVars == <<sniffFile, sniffOp, sniffRes>>
codecVars == <<codecPc, codecSrc, codecFast, codecDst, codecErr, codecOut,
               codecOutErr>>
buildVars == <<tarPc, tarSrc, tarWalk, ta, tarErr, tarDst, addErr>>
untarVars == <<untarOrigin, untarDstName, untarIdx, untarErr, untarRet, made,
               failedAt, injected>>
tarVars == <<buildVars, untarVars>>
flagVars == <<osArgs, doQuiet, dstArchive, doSingleArchive>>
mainVars == <<mainPc, trgtFiles, results, out, flagVars, exitStatus>>
vars == <<fs, data, nameOp, nameAsked, nameGot, nameExisted, nameErr, nameMade,
          splitRes,
          sniffFile, sniffOp, sniffRes,
          codecPc, codecSrc, codecFast, codecDst, codecErr, codecOut,
          codecOutErr,
          tarPc, tarSrc, tarWalk, ta, tarErr, tarDst, addErr,
          untarOrigin, untarDstName, untarIdx, untarErr, untarRet, made,
          failedAt, injected,
          mainPc, trgtFiles, results, out,
          osArgs, doQuiet, dstArchive, doSingleArchive, exitStatus>>

-----------------------------------------------------------------------------
(* Bounds of the model.                                                    *)

\* Most numbered names "base(i)ext" that exist before the program runs.
MaxTaken == 2
\* Most paths the tree may hold (caps the create actions).
MaxFiles == 6
\* Stands for the loop limit 20091110230000 of genUnusedFilename, which is
\* above TLC's integers; like it, it is above any number of paths a tree
\* of the model holds, so the probe loop never runs out.
ProbeLimit == 1000000
\* Longest file handed to isSz; most bytes a file handed to isTar holds
\* from the offset of the tar signature on.
MaxSzProbe == 11
MaxTarProbe == 6
\* Longest source file handed to snap.
MaxContent == 3
\* Stand for snappy's block size (65536) and bufio's buffer size (4096):
\* a write larger than a block is cut into several chunks, and the safe
\* path writes a buffer at a time.
BlockSize == 2
BufSize == 1
\* Most regular files in the directory handed to tarDir, and most inodes
\* they share.
MaxTreeFiles == 3
MaxInodes == 2

-----------------------------------------------------------------------------
(* Strings and paths.                                                      *)

Sep == "/"
Empty == <<>>
Nil == "nil"

\* Body applied to val: a name for a value that is used many times.
With(val, Body(_)) == Body(val)

Max(S) == CHOOSE m \in S : \A n \in S : n <= m
Min(S) == CHOOSE m \in S : \A n \in S : m <= n

\* Tokens that begin with a dot.
DotToks == {".tar", ".sz", ".txt", ".xyz"}

HasSuffix(s, suffix) ==
    /\ Len(suffix) <= Len(s)
    /\ SubSeq(s, Len(s) - Len(suffix) + 1, Len(s)) = suffix

HasPrefix(s, prefix) ==
    /\ Len(prefix) <= Len(s)
    /\ SubSeq(s, 1, Len(prefix)) = prefix

TrimSuffix(s, suffix) ==
    IF HasSuffix(s, suffix) THEN SubSeq(s, 1, Len(s) - Len(suffix)) ELSE s

\* strings.Replace(s, old, new, 1): the first occurrence of old, if any.
ReplaceFirst(s, old, new) ==
    LET at == {i \in 1..(Len(s) - Len(old) + 1) :
                  SubSeq(s, i, i + Len(old) - 1) = old}
    IN  IF at = {} THEN s
        ELSE SubSeq(s, 1, Min(at) - 1) \o new
                \o SubSeq(s, Min(at) + Len(old), Len(s))

\* filepath.Clean, on the paths of the model: repeated and trailing
\* separators are dropped.
RECURSIVE Clean(_)
Clean(p) ==
    IF Len(p) > 1 /\ p[Len(p)] = Sep THEN Clean(SubSeq(p, 1, Len(p) - 1))
    ELSE IF \E i \in 1..(Len(p) - 1) : p[i] = Sep /\ p[i + 1] = Sep
    THEN LET i == Min({j \in 1..(Len(p) - 1) : p[j] = Sep /\ p[j + 1] = Sep})
         IN  Clean(SubSeq(p, 1, i) \o SubSeq(p, i + 2, Len(p)))
    ELSE p

\* filepath.Ext: from the last dot of the final path element on.
Ext(p) ==
    LET dots == {i \in 1..Len(p) :
                    /\ p[i] \in DotToks
                    /\ \A j \in i..Len(p) : p[j] # Sep}
    IN  IF dots = {} THEN Empty ELSE SubSeq(p, Max(dots), Len(p))

\* The directory part of a clean path (Empty: the working directory).
Dir(p) ==
    LET seps == {i \in 1..Len(p) : p[i] = Sep}
    IN  IF seps = {} THEN Empty ELSE SubSeq(p, 1, Max(seps) - 1)

\* os.FileInfo.Name(): the final path element.
BaseName(p) ==
    LET q == Clean(p)
        seps == {i \in 1..Len(q) : q[i] = Sep}
    IN  IF seps = {} THEN q ELSE SubSeq(q, Max(seps) + 1, Len(q))

\* mime.TypeByExtension: the media type of a known extension, else "".
MimeTypes == [e \in {<<".txt">>} |-> "text/plain"]
TypeByExtension(e) == IF e \in DOMAIN MimeTypes THEN MimeTypes[e] ELSE ""

-----------------------------------------------------------------------------
(* The file system.                                                        *)

Join(dir, name) == IF dir = Empty THEN name ELSE dir \o <<Sep>> \o name

RegNode(i) == [kind |-> "reg", ino |-> i, target |-> Empty]
DirNode(i) == [kind |-> "dir", ino |-> i, target |-> Empty]
LnkNode(i, t) == [kind |-> "lnk", ino |-> i, target |-> t]

\* Where a clean path leads, following symbolic links: ok with the path of
\* the file or directory found, or not ok with the path that is missing.
RECURSIVE Resolve(_, _, _)
Resolve(p, F, seen) ==
    IF p \notin DOMAIN F \/ p \in seen THEN [ok |-> FALSE, path |-> p]
    ELSE IF F[p].kind = "lnk"
    THEN Resolve(Clean(Join(Dir(p), F[p].target)), F, seen \cup {p})
    ELSE [ok |-> TRUE, path |-> p]

\* os.Stat(filename): follows symbolic links.
Stat(filename, F) == Resolve(Clean(filename), F, {})

\* os.Lstat(path): the entry itself.
Lstat(path, F) ==
    [ok |-> Clean(path) \in DOMAIN F, path |-> Clean(path)]

\* The number of names of an inode (Stat_t.Nlink).
Nlink(i, F) == Cardinality({p \in DOMAIN F : F[p].ino = i})

NewIno(F) == 1 + Max({0} \cup {F[p].ino : p \in DOMAIN F})

\* An open file (*os.File); NilFile is the nil pointer.
File(name, i) ==
    [nil |-> FALSE, name |-> name, ino |-> i, off |-> 0, closed |-> FALSE]
NilFile ==
    [nil |-> TRUE, name |-> Empty, ino |-> 0, off |-> 0, closed |-> TRUE]

\* Whether a directory entry can be made at a clean path: its directory is
\* the working directory or an existing directory.
CanEnter(p, F) ==
    \/ Dir(p) = Empty
    \/ LET d == Stat(Dir(p), F) IN d.ok /\ F[d.path].kind = "dir"

\* os.OpenFile(filename, O_RDWR|O_CREATE|O_APPEND, mode).  denied: the
\* system refuses (permissions, a full disk).  The file is made when the
\* path leads nowhere; an existing file is opened as it is.
OpenFile(filename, F, D, denied) ==
    LET bad == [file |-> NilFile, err |-> "ErrOpen", fs |-> F, data |-> D,
                made |-> FALSE]
    IN  IF denied THEN bad
        ELSE With(Stat(filename, F), LAMBDA r :
            IF r.ok
            THEN IF F[r.path].kind = "dir" THEN bad
                 ELSE [file |-> File(filename, F[r.path].ino), err |-> Nil,
                       fs |-> F, data |-> D, made |-> FALSE]
            ELSE IF ~CanEnter(r.path, F) THEN bad
            ELSE With(NewIno(F), LAMBDA i :
                [file |-> File(filename, i), err |-> Nil,
                 fs |-> (r.path :> RegNode(i)) @@ F,
                 data |-> (i :> Empty) @@ D,
                 made |-> TRUE]))

\* os.Open(name): for reading.
Open(name, F, denied) ==
    LET r == Stat(name, F)
    IN  IF denied \/ ~r.ok THEN [file |-> NilFile, err |-> "ErrOpen"]
        ELSE [file |-> File(name, F[r.path].ino), err |-> Nil]

\* os.Remove(name): the name is taken out of its directory.
Remove(name, F) ==
    LET p == Clean(name)
    IN  IF p \in DOMAIN F /\ ~\E q \in DOMAIN F : Dir(q) = p
        THEN [q \in DOMAIN F \ {p} |-> F[q]]
        ELSE F

-----------------------------------------------------------------------------
(* Each specification below runs one part of the program on its own; the   *)
(* variables of the other parts rest at these values.                      *)

NameIdle ==
    /\ nameOp = "none" /\ nameGot = Empty
    /\ nameExisted = FALSE /\ nameErr = Nil /\ nameMade = FALSE
    /\ splitRes = [base |-> Empty, ext |-> Empty]

SniffIdle == sniffFile = NilFile /\ sniffOp = "none" /\ sniffRes = FALSE

CodecIdle ==
    /\ codecPc = "off" /\ codecSrc = NilFile /\ codecFast = "notrun"
    /\ codecDst = NilFile /\ codecErr = Nil
    /\ codecOut = NilFile /\ codecOutErr = Nil

BuildIdle ==
    /\ tarPc = "off" /\ tarSrc = NilFile /\ tarWalk = <<>>
    /\ ta = [hardLinks |-> <<>>, twErr |-> Nil]
    /\ tarErr = Nil /\ tarDst = NilFile /\ addErr = Nil

UntarIdle ==
    /\ untarOrigin = Empty /\ untarDstName = Empty /\ untarIdx = 0
    /\ untarErr = Nil /\ untarRet = [err |-> Nil, text |-> Empty]
    /\ made = <<>> /\ failedAt = 0 /\ injected = FALSE

TarIdle == BuildIdle /\ UntarIdle

MainIdle ==
    /\ mainPc = "off" /\ trgtFiles = <<>> /\ results = <<>> /\ out = <<>>
    /\ osArgs = <<>> /\ doQuiet = FALSE /\ dstArchive = Empty
    /\ doSingleArchive = FALSE /\ exitStatus = "none"

-----------------------------------------------------------------------------
(* NameAllocator: exists, splitExt, genUnusedFilename, create.             *)

\* exists(filename)
exists(filename, F) == Stat(filename, F).ok

\* The extensions splitExt strips although no media type is known for them.
AllowList == {<<".tar">>, <<".sz">>, <<".tar", ".sz">>}

RECURSIVE splitLoopStopKnown(_, _)
splitLoopStopKnown(base, ext) ==
    LET testext == Ext(base)
    IN  IF testext = Empty THEN [base |-> base, ext |-> ext]
        ELSE IF TypeByExtension(testext) # "" /\ testext \notin AllowList
        THEN [base |-> base, ext |-> ext]
        ELSE splitLoopStopKnown(TrimSuffix(base, testext), testext \o ext)

\* The loop of splitExt.
RECURSIVE splitLoop(_, _)
splitLoop(base, ext) ==
    LET testext == Ext(base)
    IN  IF testext = Empty THEN [base |-> base, ext |-> ext]
        ELSE IF TypeByExtension(testext) = "" /\ testext \notin AllowList
        THEN [base |-> base, ext |-> ext]
        ELSE splitLoop(TrimSuffix(base, testext), testext \o ext)

\* splitExt(filename)
splitExt(filename) == splitLoop(Clean(filename), Empty)

\* strconv.Itoa
Itoa(i) == ToString(i)

\* The loop of genUnusedFilename from i on: the first unused numbered name,
\* or the name as it was when the loop runs out.
RECURSIVE probe(_, _, _, _, _)
probe(filename, base, ext, i, F) ==
    IF ~(i < ProbeLimit) THEN filename
    ELSE LET testname == base \o <<"(", Itoa(i), ")">> \o ext
         IN  IF exists(testname, F)
             THEN probe(filename, base, ext, i + 1, F)
             ELSE testname

genUnusedFilenameLoose(filename, F) ==
    IF ~exists(filename, F) THEN filename
    ELSE LET s == splitExt(filename)
         IN  s.base \o <<"(", Itoa(1), ")">> \o s.ext

\* genUnusedFilename(&filename): the value *filename ends with.
genUnusedFilename(filename, F) ==
    IF ~exists(filename, F) THEN filename
    ELSE LET s == splitExt(filename)
         IN  probe(filename, s.base, s.ext, 1, F)

\* create(filename, mode)
create(filename, F, D, denied) ==
    OpenFile(genUnusedFilename(filename, F), F, D, denied)

\* The destination names the operations ask for.
SzName(srcName) == srcName \o <<".sz">>
TarName(dirName) == dirName \o <<".tar">>
UnszName(srcName) ==
    IF TrimSuffix(srcName, <<".sz">>) = srcName
    THEN srcName \o <<"-uncompressed">>
    ELSE TrimSuffix(srcName, <<".sz">>)

-----------------------------------------------------------------------------
(* FormatSniffer: isSz, isTar.                                             *)

\* The bytes of an open file (none for a directory).
Bytes(file, D) == IF file.ino \in DOMAIN D THEN D[file.ino] ELSE Empty

\* file.ReadAt(b, off) with len(b) = count: the bytes read into b (b is
\* zeroed when made) and their number; the read position is not used.
ReadAt(file, D, count, off) ==
    LET src == Bytes(file, D)
        n == Max({0, Min({count, Len(src) - off})})
    IN  [n |-> n,
         bytes |-> [i \in 1..count |-> IF i <= n THEN src[off + i] ELSE 0],
         file |-> file]

\* file.Read(b) with len(b) = count: reads at the read position and moves it.
Read(file, D, count) ==
    LET r == ReadAt(file, D, count, file.off)
    IN  [n |-> r.n, bytes |-> r.bytes,
         file |-> [file EXCEPT !.off = file.off + r.n]]

szTotal == 10
szSig == <<255, 6, 0, 0, 115, 78, 97, 80, 112, 89>>
tarOffset == 257
tarTotal == 5
tarSig == <<117, 115, 116, 97, 114>>

\* isSz(file): the result, and the file as the call leaves it.
isSz(file, D) ==
    LET r == ReadAt(file, D, szTotal, 0)
    IN  [res |-> IF r.n < szTotal THEN FALSE
                 ELSE \A i \in 1..szTotal : r.bytes[i] = szSig[i],
         file |-> r.file]

isTarByRead(file, D) ==
    LET r == Read(file, D, tarTotal)
    IN  [res |-> IF r.n < tarTotal THEN FALSE
                 ELSE \A i \in 1..tarTotal : r.bytes[i] = tarSig[i],
         file |-> r.file]

\* isTar(file)
isTar(file, D) ==
    LET r == ReadAt(file, D, tarTotal, tarOffset)
    IN  [res |-> IF r.n < tarTotal THEN FALSE
                 ELSE \A i \in 1..tarTotal : r.bytes[i] = tarSig[i],
         file |-> r.file]

-----------------------------------------------------------------------------
(* StreamCodec: the snappy stream, snap, snapSafe, unsnap.                 *)

\* p cut into pieces of at most size bytes.
Chunks(p, size) ==
    [k \in 1..((Len(p) + size - 1) \div size) |->
        SubSeq(p, (k - 1) * size + 1, Min({k * size, Len(p)}))]

\* The sequences of ss one after the other.
RECURSIVE Flatten(_)
Flatten(ss) ==
    IF Len(ss) = 0 THEN <<>>
    ELSE IF Len(ss) = 1 THEN ss[1]
    ELSE Flatten(SubSeq(ss, 1, Len(ss) \div 2))
            \o Flatten(SubSeq(ss, Len(ss) \div 2 + 1, Len(ss)))

\* One data chunk of the snappy stream: its type, its length in three
\* bytes, the block (stored as it is; the checksum is left out).
chunkTypeData == 1
chunkTypeStreamIdentifier == 255
Frame(block) == <<chunkTypeData, Len(block), 0, 0>> \o block

\* What one Write(p) of a snappy.Writer sends to the file under it: the
\* stream identifier before its first chunk, and a chunk for every block.
SnappyWrite(p, wrote) ==
    LET blocks == Chunks(p, BlockSize)
    IN  (IF wrote \/ Len(p) = 0 THEN <<>> ELSE szSig)
            \o Flatten([k \in 1..Len(blocks) |-> Frame(blocks[k])])

\* What a bufio.Writer over a snappy.Writer sends for p: a Write for
\* every buffer it fills, and one for the rest when it is flushed.
BufferedWrites(bufs, wrote) ==
    Flatten([k \in 1..Len(bufs) |-> SnappyWrite(bufs[k], wrote \/ k > 1)])

\* One chunk of the stream b read by a snappy.Reader that is at position
\* st.i and has decoded st.out: the stream identifier, or a data chunk
\* after it; anything else is a malformed stream.
DecodeStep(b, st) ==
    LET i == st.i
        stop(e) == [st EXCEPT !.err = e, !.done = TRUE]
    IN  IF i > Len(b) THEN stop(Nil)
        ELSE IF Len(b) - i + 1 < 4 THEN stop("ErrCorrupt")
        ELSE IF b[i] = chunkTypeStreamIdentifier
        THEN IF /\ Len(b) - i + 1 >= szTotal
                /\ SubSeq(b, i, i + szTotal - 1) = szSig
             THEN [st EXCEPT !.i = i + szTotal, !.started = TRUE]
             ELSE stop("ErrCorrupt")
        ELSE IF \/ ~st.started \/ b[i] # chunkTypeData
                \/ Len(b) - i - 3 < b[i + 1]
        THEN stop("ErrCorrupt")
        ELSE [st EXCEPT !.i = i + 4 + b[i + 1],
                        !.out = @ \o SubSeq(b, i + 4, i + 3 + b[i + 1])]

\* The reader after at most n more chunks.
RECURSIVE DecodeUpTo(_, _, _)
DecodeUpTo(b, st, n) ==
    IF st.done \/ n = 0 THEN st
    ELSE IF n = 1 THEN DecodeStep(b, st)
    ELSE DecodeUpTo(b, DecodeUpTo(b, st, n \div 2), n - n \div 2)

\* What a snappy.Reader yields for the stream b from position i on: the
\* bytes decoded before the end or the first malformed chunk.
Decode(b, i, started, acc) ==
    LET st == DecodeUpTo(b, [i |-> i, started |-> started, out |-> acc,
                             err |-> Nil, done |-> FALSE], Len(b) + 1)
    IN  [out |-> st.out, err |-> st.err]

\* A point where the system fails an operation: at names the call, n how
\* many bytes went through before it failed.
NoFault == [at |-> "none", n |-> 0]
Fault(at, n) == [at |-> at, n |-> n]

\* The bytes of an open file from its read position on.
Rest(file, D) == SubSeq(Bytes(file, D), file.off + 1, Len(Bytes(file, D)))

\* file.Write(p) on a file opened with O_APPEND.
WriteTo(file, D, p) == [D EXCEPT ![file.ino] = @ \o p]

Failed(err, src, F, D) ==
    [dst |-> NilFile, err |-> err, src |-> src, fs |-> F, data |-> D,
     fast |-> "notrun"]

\* snapSafe(src).  Faults: "stat", "create", "copy" (io.Copy fails after n
\* bytes of the source), "flush", "reopen".
snapSafe(src, F, D, fault) ==
    IF src.closed \/ fault.at = "stat" THEN Failed("ErrStat", src, F, D)
    ELSE
    With(genUnusedFilename(SzName(src.name), F), LAMBDA dstName :
    With(create(dstName, F, D, fault.at = "create"), LAMBDA c :
        LET rest == Rest(src, D)
            n == IF fault.at = "copy" THEN Min({fault.n, Len(rest)})
                 ELSE Len(rest)
            \* io.Copy writes every buffer it fills; Flush writes the rest.
            bufs == Chunks(SubSeq(rest, 1, n), BufSize)
            full == SelectSeq(bufs, LAMBDA b : Len(b) = BufSize)
            sent == IF fault.at \in {"copy", "flush"} THEN full ELSE bufs
            d == WriteTo(c.file, c.data, BufferedWrites(sent, FALSE))
            \* src.Close() follows io.Copy whatever it returned.
            s == [src EXCEPT !.off = src.off + n, !.closed = TRUE]
            o == Open(dstName, c.fs, fault.at = "reopen")
        IN  IF c.err # Nil THEN Failed(c.err, src, F, D)
            ELSE IF fault.at = "copy"
            THEN [dst |-> c.file, err |-> "ErrCopy", src |-> s,
                  fs |-> c.fs, data |-> d, fast |-> "notrun"]
            ELSE IF fault.at = "flush"
            THEN [dst |-> c.file, err |-> "ErrFlush", src |-> s,
                  fs |-> c.fs, data |-> d, fast |-> "notrun"]
            ELSE [dst |-> o.file, err |-> o.err, src |-> s,
                  fs |-> c.fs, data |-> d, fast |-> "notrun"]))

\* snap(src), its deferred function included.  Faults of the fast path:
\* "stat", "create", "read" (ioutil.ReadAll fails after n bytes), "write"
\* (the snappy writer fails after n bytes reached the file), "reopen";
\* fault2 is the fault of the snapSafe the deferred function may run.
snap(src, F, D, fault, fault2) ==
    IF src.closed \/ fault.at = "stat" THEN Failed("ErrStat", src, F, D)
    ELSE
    With(genUnusedFilename(SzName(src.name), F), LAMBDA dstName :
    With(create(dstName, F, D, fault.at = "create"), LAMBDA c :
        LET rest == Rest(src, D)
            n == IF fault.at = "read" THEN Min({fault.n, Len(rest)})
                 ELSE Len(rest)
            \* ioutil.ReadAll moves the read position of src.
            s == [src EXCEPT !.off = src.off + n]
            enc == SnappyWrite(rest, FALSE)
            part == SubSeq(enc, 1, Min({fault.n, Len(enc)}))
            o == Open(dstName, c.fs, fault.at = "reopen")
        IN  IF c.err # Nil THEN Failed(c.err, src, F, D)
            ELSE IF fault.at \in {"read", "write"}
            THEN [snapSafe(s, c.fs,
                           IF fault.at = "write"
                           THEN WriteTo(c.file, c.data, part) ELSE c.data,
                           fault2)
                     EXCEPT !.fast = "failed"]
            ELSE [dst |-> o.file, err |-> o.err, src |-> s, fs |-> c.fs,
                  data |-> WriteTo(c.file, c.data, enc), fast |-> "ok"]))

\* unsnap(src).  Faults: "stat", "create", "copy" (io.Copy fails after n
\* decoded bytes), "reopen".
unsnap(src, F, D, fault) ==
    IF src.closed \/ fault.at = "stat" THEN Failed("ErrStat", src, F, D)
    ELSE
    With(genUnusedFilename(UnszName(BaseName(src.name)), F), LAMBDA dstName :
    With(create(dstName, F, D, fault.at = "create"), LAMBDA c :
    With(Decode(Bytes(src, D), src.off + 1, FALSE, <<>>), LAMBDA dec :
        LET n == IF fault.at = "copy" THEN Min({fault.n, Len(dec.out)})
                 ELSE Len(dec.out)
            d == WriteTo(c.file, c.data, SubSeq(dec.out, 1, n))
            s == [src EXCEPT !.off = Len(Bytes(src, D))]
            o == Open(dstName, c.fs, fault.at = "reopen")
        IN  IF c.err # Nil THEN Failed(c.err, src, F, D)
            ELSE IF fault.at = "copy"
            THEN [dst |-> c.file, err |-> "ErrCopy", src |-> s,
                  fs |-> c.fs, data |-> d, fast |-> "notrun"]
            ELSE IF dec.err # Nil
            THEN [dst |-> c.file, err |-> dec.err, src |-> s,
                  fs |-> c.fs, data |-> d, fast |-> "notrun"]
            ELSE [dst |-> o.file, err |-> o.err, src |-> s,
                  fs |-> c.fs, data |-> d, fast |-> "notrun"])))

-----------------------------------------------------------------------------
(* TarBuilder: fmtDir, tarDir's walk, tarAppender.add, tarSetHeader.       *)

\* fmtDir(&name)
fmtDir(name) == IF HasSuffix(name, <<Sep>>) THEN name ELSE name \o <<Sep>>

\* The order of the entry names of the model, as filepath.Walk sorts them.
NameOrder == <<"a", "b", "c", "e", "g", "l">>
Rank(p) == CHOOSE k \in 1..Len(NameOrder) : NameOrder[k] = p[Len(p)]

RECURSIVE Sorted(_)
Sorted(S) ==
    IF S = {} THEN <<>>
    ELSE LET m == CHOOSE x \in S : \A y \in S : Rank(x) <= Rank(y)
         IN  <<m>> \o Sorted(S \ {m})

\* The paths filepath.Walk(root, fn) hands to fn, in its order: a
\* directory, then what it holds by name; links are not followed.
RECURSIVE Walk(_, _)
Walk(p, F) ==
    IF F[p].kind # "dir" THEN <<p>>
    ELSE LET kids == Sorted({q \in DOMAIN F : Dir(q) = p})
         IN  <<p>> \o Flatten([k \in 1..Len(kids) |-> Walk(kids[k], F)])

\* tar.FileInfoHeader(fi, link)
FileInfoHeader(node, link, D) ==
    [name |-> Empty,
     typeflag |-> CASE node.kind = "reg" -> "reg"
                    [] node.kind = "dir" -> "dir"
                    [] node.kind = "lnk" -> "symlink",
     size |-> IF node.kind = "reg" THEN Len(D[node.ino]) ELSE 0,
     linkname |-> link,
     body |-> Empty]

\* tarSetHeader(hdr, fi.Sys()): the number of links and the inode.
tarSetHeader(node, F) == [nlink |-> Nlink(node.ino, F), inode |-> node.ino]

hardLinkForgetful(hdr, node, st, links) ==
    IF node.kind = "reg" /\ st.nlink > 1 /\ st.inode \in DOMAIN links
    THEN [hdr |-> [hdr EXCEPT !.typeflag = "link",
                              !.linkname = links[st.inode],
                              !.size = 0],
          hardLinks |-> links]
    ELSE [hdr |-> hdr, hardLinks |-> links]

\* The hard link step of add: the header and ta.hardLinks it leaves.
hardLink(hdr, node, st, links) ==
    IF node.kind = "reg" /\ st.nlink > 1
    THEN IF st.inode \in DOMAIN links
         THEN [hdr |-> [hdr EXCEPT !.typeflag = "link",
                                   !.linkname = links[st.inode],
                                   !.size = 0],
               hardLinks |-> links]
         ELSE [hdr |-> hdr, hardLinks |-> (st.inode :> hdr.name) @@ links]
    ELSE [hdr |-> hdr, hardLinks |-> links]

\* An archive is kept as the fields of its members, one record a member,
\* behind the part of its first header block that isTar looks at: the
\* block up to its magic field ("ustar" at offset 257, which tar.Writer
\* writes in every header).  The end of the archive (two blocks of
\* zeros) is kept as two records.
TarHead == [i \in 1..tarOffset |-> 0] \o tarSig
TarTrailer == <<[typeflag |-> "end"], [typeflag |-> "end"]>>

\* The members a tar.Reader finds in the bytes b.
TarMembers(b) ==
    IF Len(b) <= Len(TarHead) THEN <<>>
    ELSE SelectSeq(SubSeq(b, Len(TarHead) + 1, Len(b)),
                   LAMBDA m : m.typeflag # "end")

\* tw.WriteHeader(hdr), and the writes of the body that follow it: the
\* member is added to the stream in the file.
WriteMember(dst, D, hdr) ==
    [D EXCEPT ![dst.ino] =
        (IF Len(@) = 0 THEN TarHead ELSE @) \o <<hdr>>]

\* ta.add(path, name).  Faults: "lstat", "readlink", "header" (the header
\* cannot be made), "writeheader", "open", "copyread" (reading the file
\* fails after n bytes), "copywrite" (the tar writer fails after n bytes),
\* "flush".  A failed write stays in the tar writer as its error, and so
\* does a body left shorter than the size its header announced.
add(path, name, app, dst, F, D, fault) ==
    LET fi == Lstat(path, F)
        node == F[fi.path]
        link == IF node.kind = "lnk" THEN node.target ELSE Empty
        hdr0 == [FileInfoHeader(node, link, D) EXCEPT
                    !.name = IF node.kind = "dir" THEN fmtDir(name) ELSE name]
        content == D[node.ino]
        n == IF fault.at \in {"copyread", "copywrite"}
             THEN Min({fault.n, Len(content)}) ELSE Len(content)
        sent == IF fault.at = "flush" THEN Empty ELSE SubSeq(content, 1, n)
        ret(e, a, d) == [err |-> e, ta |-> a, data |-> d]
    IN  IF ~fi.ok \/ fault.at = "lstat" THEN ret("ErrLstat", app, D)
        ELSE IF node.kind = "lnk" /\ fault.at = "readlink"
        THEN ret("ErrReadlink", app, D)
        ELSE IF fault.at = "header" THEN ret("ErrHeader", app, D)
        ELSE
        With(hardLink(hdr0, node, tarSetHeader(node, F), app.hardLinks),
             LAMBDA h :
            LET seen == [app EXCEPT !.hardLinks = h.hardLinks]
                short == IF Len(content) > 0
                         THEN [seen EXCEPT !.twErr = "ErrMissed"] ELSE seen
                whole == WriteMember(dst, D, [h.hdr EXCEPT !.body = sent])
            IN  IF fault.at = "writeheader"
                THEN ret("ErrWrite", [seen EXCEPT !.twErr = "ErrWrite"], D)
                ELSE IF h.hdr.typeflag # "reg"
                THEN ret(Nil, seen, WriteMember(dst, D, h.hdr))
                ELSE IF fault.at = "open"
                THEN ret("ErrOpen", short, WriteMember(dst, D, h.hdr))
                ELSE IF fault.at = "copyread"
                THEN ret("ErrRead", short, whole)
                ELSE IF fault.at \in {"copywrite", "flush"}
                THEN ret("ErrWrite", [seen EXCEPT !.twErr = "ErrWrite"],
                         whole)
                ELSE ret(Nil, seen, whole))

\* The function tarDir hands to filepath.Walk.  Fault "walk": Walk hands
\* it an error (a directory it cannot read); the others are add's.
walkFn(path, app, dst, F, D, fault) ==
    IF fault.at = "walk" THEN [err |-> "ErrWalk", ta |-> app, data |-> D]
    ELSE add(path, path, app, dst, F, D, fault)

\* ta.tarWriter.Close(): the error a write left, else the outcome of
\* writing the end of the archive (failing: the system refuses it).
twClose(app, dst, D, failing) ==
    IF app.twErr # Nil THEN [err |-> app.twErr, data |-> D]
    ELSE IF failing THEN [err |-> "ErrClose", data |-> D]
    ELSE [err |-> Nil, data |-> WriteTo(dst, D, TarTrailer)]

-----------------------------------------------------------------------------
(* TarExtractor: the calls untar makes for a member.                       *)

\* os.MkdirAll(path, mode)
RECURSIVE MkdirAll(_, _, _)
MkdirAll(path, F, denied) ==
    LET q == Clean(path)
        r == IF Dir(q) = Empty THEN [err |-> Nil, fs |-> F]
             ELSE MkdirAll(Dir(q), F, FALSE)
    IN  IF denied THEN [err |-> "ErrMkdir", fs |-> F]
        ELSE IF Stat(q, F).ok
        THEN IF F[Stat(q, F).path].kind = "dir" THEN [err |-> Nil, fs |-> F]
             ELSE [err |-> "ErrMkdir", fs |-> F]
        ELSE IF q \in DOMAIN F \/ r.err # Nil THEN [err |-> "ErrMkdir", fs |-> F]
        ELSE [err |-> Nil, fs |-> (q :> DirNode(NewIno(r.fs))) @@ r.fs]

\* os.Link(oldname, newname): newname becomes one more name of the inode.
Link(oldname, newname, F, denied) ==
    LET o == Clean(oldname)
        n == Clean(newname)
    IN  IF \/ denied \/ o \notin DOMAIN F \/ n \in DOMAIN F
           \/ ~CanEnter(n, F)
        THEN [err |-> "ErrLink", fs |-> F]
        ELSE IF F[o].kind = "dir" THEN [err |-> "ErrLink", fs |-> F]
        ELSE [err |-> Nil, fs |-> (n :> F[o]) @@ F]

\* os.Symlink(oldname, newname)
Symlink(oldname, newname, F, denied) ==
    LET n == Clean(newname)
    IN  IF denied \/ n \in DOMAIN F \/ ~CanEnter(n, F)
        THEN [err |-> "ErrSymlink", fs |-> F]
        ELSE [err |-> Nil, fs |-> (n :> LnkNode(NewIno(F), oldname)) @@ F]

\* The name untar gives a member: the root is replaced when it was taken.
memberName(hdr, originName, dstName) ==
    IF dstName # originName
    THEN ReplaceFirst(hdr.name, originName, dstName)
    ELSE hdr.name

\* The switch of untar on hdr.Typeflag: err as it leaves it, the tree,
\* and the path made.  Faults: "mkdir", "create", "copy" (after n bytes),
\* "link", "symlink".
extract(hdr, name, F, D, fault) ==
    LET ret(e, f, d, p) ==
            [err |-> e, fs |-> f, data |-> d,
             path |-> IF e = Nil THEN Clean(p) ELSE Empty]
        n == IF fault.at = "copy" THEN Min({fault.n, Len(hdr.body)})
             ELSE Len(hdr.body)
    IN  CASE hdr.typeflag = "dir" ->
                With(MkdirAll(name, F, fault.at = "mkdir"), LAMBDA mk :
                    ret(mk.err, mk.fs, D, name))
          [] hdr.typeflag = "reg" ->
                With(create(name, F, D, fault.at = "create"), LAMBDA c :
                    IF c.err # Nil THEN ret(c.err, F, D, name)
                    ELSE ret(IF fault.at = "copy" THEN "ErrCopy" ELSE Nil,
                             c.fs,
                             WriteTo(c.file, c.data, SubSeq(hdr.body, 1, n)),
                             c.file.name))
          [] hdr.typeflag = "link" ->
                With(Link(hdr.linkname, name, F, fault.at = "link"),
                     LAMBDA ln : ret(ln.err, ln.fs, D, name))
          [] hdr.typeflag = "symlink" ->
                With(Symlink(hdr.linkname, name, F, fault.at = "symlink"),
                     LAMBDA sl : ret(sl.err, sl.fs, D, name))
          [] OTHER -> ret(Nil, F, D, Empty)

\* What becomes of untar's err after the switch: a break in the switch
\* leaves the switch, not the loop, and the loop goes on to tr.Next().
afterSwitch(err) == "loop"

-----------------------------------------------------------------------------
(* tarDir and untar as whole calls, as analyze makes them.  A fault of a   *)
(* whole call names the call the system fails and, in n, the entry of the  *)
(* walk or the member of the archive at which it fails it.                 *)

stepFault(fault, k) == IF fault.n = k THEN Fault(fault.at, 0) ELSE NoFault

\* filepath.Walk over paths, entry k first: it stops at the first error
\* the function returns.
RECURSIVE walkFrom(_, _, _, _, _, _, _)
walkFrom(paths, k, app, dst, F, D, fault) ==
    IF paths = <<>> THEN [err |-> Nil, ta |-> app, data |-> D]
    ELSE With(walkFn(Head(paths), app, dst, F, D, stepFault(fault, k)),
              LAMBDA r :
             IF r.err # Nil THEN r
             ELSE walkFrom(Tail(paths), k + 1, r.ta, dst, F, r.data, fault))

\* tarDir(dir), its deferred functions included: the tar writer is closed,
\* and its result is what err becomes; the archive is opened again if
\* that is nil.
tarDir(dir, F, D, fault, closeFails, reopenFails) ==
    IF dir.closed \/ fault.at = "stat"
    THEN [dst |-> NilFile, err |-> "ErrStat", fs |-> F, data |-> D]
    ELSE
    With(genUnusedFilename(TarName(dir.name), F), LAMBDA dstName :
    With(create(dstName, F, D, fault.at = "create"), LAMBDA c :
        IF c.err # Nil
        THEN [dst |-> NilFile, err |-> c.err, fs |-> F, data |-> D]
        ELSE
        With(walkFrom(Walk(Clean(dir.name), F), 1,
                      [hardLinks |-> <<>>, twErr |-> Nil],
                      c.file, c.fs, c.data, fault), LAMBDA w :
        With(twClose(w.ta, c.file, w.data, closeFails), LAMBDA closed :
        With(Open(dstName, c.fs, reopenFails), LAMBDA o :
            IF closed.err # Nil
            THEN [dst |-> c.file, err |-> closed.err, fs |-> c.fs,
                  data |-> closed.data]
            ELSE [dst |-> o.file, err |-> o.err, fs |-> c.fs,
                  data |-> closed.data])))))

\* The loop of untar from the k-th call of tr.Next() on.
RECURSIVE untarLoop(_, _, _, _, _, _, _)
untarLoop(members, k, originName, dstName, F, D, fault) ==
    IF stepFault(fault, k).at = "next"
    THEN [err |-> "ErrNext", fs |-> F, data |-> D]
    ELSE IF k > Len(members) THEN [err |-> Nil, fs |-> F, data |-> D]
    ELSE With(extract(members[k],
                      memberName(members[k], originName, dstName),
                      F, D, stepFault(fault, k)), LAMBDA r :
             IF afterSwitch(r.err) = "loop"
             THEN untarLoop(members, k + 1, originName, dstName, r.fs,
                            r.data, fault)
             ELSE [err |-> r.err, fs |-> r.fs, data |-> r.data])

\* untar(file)
untar(file, F, D, fault) ==
    IF file.closed \/ fault.at = "stat"
    THEN [err |-> "ErrStat", fs |-> F, data |-> D]
    ELSE
    With(TrimSuffix(BaseName(file.name), <<".tar">>), LAMBDA originName :
        untarLoop(TarMembers(Rest(file, D)), 1, originName,
                  genUnusedFilename(originName, F), F, D, fault))

-----------------------------------------------------------------------------
(* Orchestrator: isDir, analyze, main.                                     *)

\* isDir(file)
isDir(file, F) ==
    LET r == Stat(file.name, F) IN r.ok /\ F[r.path].kind = "dir"

\* The faults of one call of analyze, one for each call it makes.
NoFaults ==
    [open |-> FALSE, unsnap |-> NoFault, untar |-> NoFault,
     tarDir |-> NoFault, close |-> FALSE, reopen |-> FALSE,
     snap |-> NoFault, safe |-> NoFault]

\* The default clause of analyze's switch on the open file src.  sz and
\* err are declared by this clause: sz is nil whenever snap returns no
\* file, and sz.Name() then panics.
compress(src, F, D, flt) ==
    With(snap(src, F, D, flt.snap, flt.safe), LAMBDA s :
        IF s.err = Nil
        THEN [err |-> Nil, panic |-> FALSE, fs |-> s.fs, data |-> s.data,
              snapErr |-> s.err]
        ELSE IF s.dst.nil
        THEN [err |-> Nil, panic |-> TRUE, fs |-> s.fs, data |-> s.data,
              snapErr |-> s.err]
        ELSE With(snapSafe(s.src, Remove(s.dst.name, s.fs), s.data, NoFault),
                  LAMBDA again :
                 [err |-> again.err, panic |-> FALSE, fs |-> again.fs,
                  data |-> again.data, snapErr |-> s.err]))

\* How a call of analyze ended: err (what it returned), panic (it returned
\* nothing: it panicked), the tree it leaves, and of its intermediate
\* archive, if it had one, the name (interm), the error of the step that
\* used it (depErr) and whether it is still there (kept).
ended(e, pn, F, D, br, interm, depErr) ==
    [err |-> e, panic |-> pn, fs |-> F, data |-> D, branch |-> br,
     interm |-> interm, depErr |-> depErr,
     kept |-> interm # Empty /\ exists(interm, F)]

\* analyze(filename), its deferred functions included.
analyze(filename, F, D, flt) ==
    With(Open(filename, F, flt.open), LAMBDA o :
    IF o.err # Nil THEN ended(o.err, FALSE, F, D, "open", Empty, Nil)
    ELSE IF isSz(o.file, D).res
    THEN \* This clause declares uncompressed and its own err, which its
         \* deferred function tests.
         With(unsnap(o.file, F, D, flt.unsnap), LAMBDA u :
         IF u.err # Nil
         THEN ended(u.err, FALSE, u.fs, u.data, "unsnap", Empty, Nil)
         ELSE IF ~isTar(u.dst, u.data).res
         THEN ended(Nil, FALSE, u.fs, u.data, "unsnap", Empty, Nil)
         ELSE With(untar(u.dst, u.fs, u.data, flt.untar), LAMBDA x :
                  ended(x.err, FALSE,
                        IF x.err = Nil THEN Remove(u.dst.name, x.fs)
                        ELSE x.fs,
                        x.data, "untar", u.dst.name, x.err)))
    ELSE IF isDir(o.file, F)
    THEN \* tarDir's results go to analyze's file and err (errOuter), which
         \* the deferred function of this clause tests; the default clause
         \* it falls through to declares an err of its own.
         With(tarDir(o.file, F, D, flt.tarDir, flt.close, flt.reopen),
              LAMBDA t :
         IF t.err # Nil
         THEN ended(t.err, FALSE, t.fs, t.data, "tarDir", Empty, Nil)
         ELSE With(compress(t.dst, t.fs, t.data, flt), LAMBDA ct :
              With(t.err, LAMBDA errOuter :
                  ended(ct.err, ct.panic,
                        IF errOuter = Nil THEN Remove(t.dst.name, ct.fs)
                        ELSE ct.fs,
                        ct.data, "tarDir", t.dst.name, ct.snapErr))))
    ELSE With(compress(o.file, F, D, flt), LAMBDA cf :
             ended(cf.err, cf.panic, cf.fs, cf.data, "snap", Empty, Nil)))

-----------------------------------------------------------------------------
(* The name allocator on its own: any destination an operation asks for,   *)
(* in a tree where the name and some of its numbered variants are taken.   *)

\* The destinations snap, snapSafe, unsnap, tarDir and untar ask for.
NameCands ==
    {SzName(<<"f">>), SzName(<<"f", ".txt">>), SzName(<<"f", ".xyz">>),
     SzName(<<"d", ".tar">>), UnszName(<<"f", ".sz">>), UnszName(<<"f">>),
     UnszName(<<"d", ".tar", ".sz">>), TarName(<<"d">>),
     TrimSuffix(<<"d", ".tar">>, <<".tar">>), <<"d", Sep, "a">>}

\* The i-th numbered variant of a name.
Numbered(c, i) ==
    splitExt(c).base \o <<"(", Itoa(i), ")">> \o splitExt(c).ext

\* A tree holding c (as a file, as a symbolic link to a missing file, or
\* not at all) and the numbered variants of c in S.
NameTree(c, how, S) ==
    LET own == IF how = "absent" THEN {} ELSE {c}
        P == own \cup {Numbered(c, i) : i \in S}
        dirs == {Dir(p) : p \in P} \ {Empty}
        node(p) == IF p \in dirs \/ (p = c /\ c = <<"d">>)
                       THEN DirNode(MaxTaken + 2)
                   ELSE IF p = c /\ how = "dangling"
                       THEN LnkNode(1, <<"gone">>)
                   ELSE IF p = c THEN RegNode(1)
                   ELSE RegNode(1 + CHOOSE i \in S : p = Numbered(c, i))
    IN  [p \in P \cup dirs |-> node(p)]

InitName ==
    /\ \E c \in NameCands, how \in {"absent", "file", "dangling"},
          S \in SUBSET (1..MaxTaken) :
          /\ nameAsked = c
          /\ fs = NameTree(c, how, S)
          /\ data = [i \in {fs[p].ino : p \in {q \in DOMAIN fs :
                                         fs[q].kind = "reg"}} |-> Empty]
    /\ NameIdle
    /\ SniffIdle
    /\ CodecIdle
    /\ TarIdle
    /\ MainIdle

\* genUnusedFilename(&c)
NameProbe(c) ==
    /\ nameOp' = "probe"
    /\ UNCHANGED nameAsked
    /\ nameGot' = genUnusedFilename(c, fs)
    /\ nameExisted' = exists(genUnusedFilename(c, fs), fs)
    /\ nameErr' = Nil
    /\ nameMade' = FALSE
    /\ UNCHANGED splitRes
    /\ UNCHANGED <<fsVars, sniffVars, codecVars, tarVars,
       mainVars>>

\* create(c, mode)
NameCreate(c, denied) ==
    LET r == create(c, fs, data, denied)
    IN  /\ Cardinality(DOMAIN fs) < MaxFiles
        /\ nameOp' = "create"
        /\ UNCHANGED nameAsked
        /\ nameGot' = r.file.name
        /\ nameExisted' = (~r.file.nil /\ exists(r.file.name, fs))
        /\ nameErr' = r.err
        /\ nameMade' = r.made
        /\ UNCHANGED splitRes
        /\ fs' = r.fs
        /\ data' = r.data
        /\ UNCHANGED <<sniffVars, codecVars, tarVars,
           mainVars>>

NextName ==
    \/ NameProbe(nameAsked)
    \/ \E denied \in BOOLEAN : NameCreate(nameAsked, denied)

SpecName == InitName /\ [][NextName]_vars

-----------------------------------------------------------------------------
(* The sniffer on its own: files that hold the snappy signature, the tar   *)
(* signature, a part of one, or one with some bytes changed.               *)

\* The sequences of length n whose i-th byte is sig[i] or differs from it
\* (0 past the end of sig).
RECURSIVE Variants(_, _)
Variants(sig, n) ==
    IF n = 0 THEN {Empty}
    ELSE LET good == IF n <= Len(sig) THEN sig[n] ELSE 0
         IN  {v \o <<b>> : v \in Variants(sig, n - 1),
                           b \in {good, (good + 1) % 256}}

Zeros(n) == [i \in 1..n |-> 0]

SniffContents ==
    UNION {Variants(szSig, n) : n \in 0..MaxSzProbe}
    \cup {Zeros(pad) \o v : pad \in {tarOffset - 1, tarOffset},
                            v \in UNION {Variants(tarSig, n) :
                                            n \in 0..MaxTarProbe}}

InitSniff ==
    /\ fs = (<<"f">> :> RegNode(1))
    /\ \E c \in SniffContents : data = (1 :> c)
    /\ \E off \in {0, 1} :
          sniffFile = [File(<<"f">>, 1) EXCEPT !.off = off]
    /\ sniffOp = "none" /\ sniffRes = FALSE
    /\ NameIdle /\ nameAsked = Empty
    /\ CodecIdle
    /\ TarIdle
    /\ MainIdle

SniffSz ==
    /\ sniffOp = "none"
    /\ sniffOp' = "isSz"
    /\ sniffRes' = isSz(sniffFile, data).res
    /\ sniffFile' = isSz(sniffFile, data).file
    /\ UNCHANGED <<fsVars, nameVars, codecVars, tarVars,
       mainVars>>

SniffTar ==
    /\ sniffOp = "none"
    /\ sniffOp' = "isTar"
    /\ sniffRes' = isTar(sniffFile, data).res
    /\ sniffFile' = isTar(sniffFile, data).file
    /\ UNCHANGED <<fsVars, nameVars, codecVars, tarVars,
       mainVars>>

NextSniff == SniffSz \/ SniffTar

SpecSniff == InitSniff /\ [][NextSniff]_vars

\* C6: isSz answers true exactly for a file of at least 10 bytes whose
\* bytes 0..9 are FF 06 00 00 73 4E 61 50 70 59, isTar exactly for a file
\* whose bytes 257..261 are all there and are "ustar"; the answer is a
\* boolean, never an error, and the read position stays where it was.
SignatureSensitivity ==
    [][LET b == data[1]
           sz == /\ Len(b) >= 10
                 /\ SubSeq(b, 1, 10)
                       = <<255, 6, 0, 0, 115, 78, 97, 80, 112, 89>>
           tr == /\ Len(b) >= 262
                 /\ SubSeq(b, 258, 262) = <<117, 115, 116, 97, 114>>
       IN  /\ sniffOp' = "isSz" => sniffRes' = sz
           /\ sniffOp' = "isTar" => sniffRes' = tr
           /\ sniffRes' \in BOOLEAN
           /\ sniffFile'.off = sniffFile.off
           /\ data' = data]_vars

\* isTar has answered true on a file whose read position was not 0.
SignatureWitness ==
    sniffOp = "isTar" /\ sniffRes = TRUE /\ sniffFile.off = 1

-----------------------------------------------------------------------------
(* The codec on its own: snap on a regular file f, then unsnap on what     *)
(* snap returned, the system failing any one call of each function.        *)

ByteVals == {0, 255}

RECURSIVE Contents(_)
Contents(n) ==
    IF n = 0 THEN {Empty}
    ELSE Contents(n - 1)
            \cup {c \o <<b>> : c \in {x \in Contents(n - 1) : Len(x) = n - 1},
                               b \in ByteVals}

\* The faults of a function that moves count bytes.
Faults(calls, moving, count) ==
    {NoFault} \cup {Fault(at, 0) : at \in calls}
        \cup {Fault(at, n) : at \in moving, n \in 0..count}

InitCodec ==
    /\ \E c \in Contents(MaxContent), taken \in BOOLEAN :
          /\ fs = IF taken
                  THEN (<<"f">> :> RegNode(1)) @@ (<<"f", ".sz">> :> RegNode(2))
                  ELSE (<<"f">> :> RegNode(1))
          /\ data = IF taken THEN (1 :> c) @@ (2 :> Empty) ELSE (1 :> c)
    /\ codecPc = "start"
    /\ codecSrc = File(<<"f">>, 1)
    /\ codecFast = "notrun"
    /\ codecDst = NilFile /\ codecErr = Nil
    /\ codecOut = NilFile /\ codecOutErr = Nil
    /\ NameIdle /\ nameAsked = Empty
    /\ SniffIdle
    /\ TarIdle
    /\ MainIdle

\* dst, err := snap(src)
CodecSnap(fault, fault2) ==
    LET r == snap(codecSrc, fs, data, fault, fault2)
    IN  /\ codecPc = "start"
        /\ codecPc' = "snapped"
        /\ codecSrc' = r.src
        /\ codecFast' = r.fast
        /\ codecDst' = r.dst
        /\ codecErr' = r.err
        /\ fs' = r.fs
        /\ data' = r.data
        /\ UNCHANGED <<codecOut, codecOutErr, nameVars, sniffVars, tarVars,
           mainVars>>

\* out, err := unsnap(dst), on the file a successful snap returned
CodecUnsnap(fault) ==
    LET r == unsnap(codecDst, fs, data, fault)
    IN  /\ codecPc = "snapped"
        /\ codecErr = Nil
        /\ codecPc' = "unsnapped"
        /\ codecDst' = r.src
        /\ codecOut' = r.dst
        /\ codecOutErr' = r.err
        /\ fs' = r.fs
        /\ data' = r.data
        /\ UNCHANGED <<codecSrc, codecFast, codecErr, nameVars, sniffVars,
                       tarVars,
                       mainVars>>

NextCodec ==
    \/ \E fault \in Faults({"stat", "create", "reopen"}, {"read", "write"},
                           MaxContent),
          fault2 \in Faults({"stat", "create", "flush", "reopen"}, {"copy"},
                            MaxContent) :
          CodecSnap(fault, fault2)
    \/ \E fault \in Faults({"stat", "create", "reopen"}, {"copy"},
                           MaxContent) :
          CodecUnsnap(fault)

SpecCodec == InitCodec /\ [][NextCodec]_vars

\* C1: when the fast path of snap fails after it has started and the
\* snapSafe run in its place succeeds, the file snap returns decompresses
\* to the whole content of the source.
FallbackCorrect ==
    (codecPc = "snapped" /\ codecFast = "failed" /\ codecErr = Nil)
        => Decode(Bytes(codecDst, data), 1, FALSE, <<>>)
              = [out |-> data[1], err |-> Nil]

\* C2: unsnap of what snap made out of a regular file has the bytes of
\* that file, from its first byte on.
RoundTrip ==
    (codecPc = "unsnapped" /\ codecErr = Nil /\ codecOutErr = Nil)
        => Bytes(codecOut, data) = data[1]

-----------------------------------------------------------------------------
(* tarDir on a directory d, then untar of the archive it built.  The       *)
(* directory holds regular files, some of them names of one inode, and     *)
(* maybe a symbolic link.                                                  *)

TreeNames == {NameOrder[k] : k \in 1..MaxTreeFiles}

\* The directory d with the files of S, inode[n] the inode of file n.
Tree(S, inode, withLink) ==
    LET files == [p \in {<<"d", Sep, n>> : n \in S} |-> RegNode(inode[p[3]])]
        root == (<<"d">> :> DirNode(MaxInodes + 1))
        link == IF withLink
                THEN (<<"d", Sep, "l">> :> LnkNode(MaxInodes + 2, <<"a">>))
                ELSE <<>>
    IN  files @@ root @@ link

InitTar ==
    /\ \E S \in SUBSET TreeNames, withLink \in BOOLEAN, hollow \in BOOLEAN :
          \E inode \in [S -> 1..MaxInodes] :
              \* inodes are numbered in the order of the names
              /\ \A n \in S :
                    inode[n] <= 1 + Max({0} \cup {inode[m] : m \in
                                    {x \in S : Rank(<<x>>) < Rank(<<n>>)}})
              /\ fs = Tree(S, inode, withLink)
              \* the file of inode 1 may be empty
              /\ hollow => S # {}
              /\ data = [i \in {inode[n] : n \in S} |->
                            IF hollow /\ i = 1 THEN Empty ELSE <<i>>]
    /\ tarPc = "start"
    /\ tarSrc = File(<<"d">>, MaxInodes + 1)
    /\ tarWalk = <<>>
    /\ ta = [hardLinks |-> <<>>, twErr |-> Nil]
    /\ tarErr = Nil /\ tarDst = NilFile /\ addErr = Nil
    /\ UntarIdle
    /\ NameIdle /\ nameAsked = Empty
    /\ SniffIdle
    /\ CodecIdle
    /\ MainIdle

\* tarDir(dir) up to the walk: the destination is made and the tar
\* writer set up.  Faults: "stat", "create".
TarDirStart(fault) ==
    LET dstName == genUnusedFilename(TarName(tarSrc.name), fs)
        c == create(dstName, fs, data, fault.at = "create")
    IN  /\ tarPc = "start"
        /\ IF fault.at = "stat"
           THEN /\ tarErr' = "ErrStat"
                /\ tarPc' = "built"
                /\ UNCHANGED <<fs, data, tarDst, tarWalk>>
           ELSE IF c.err # Nil
           THEN /\ tarErr' = c.err
                /\ tarPc' = "built"
                /\ UNCHANGED <<fs, data, tarDst, tarWalk>>
           ELSE /\ tarErr' = Nil
                /\ tarPc' = "walk"
                /\ fs' = c.fs
                /\ data' = c.data
                /\ tarDst' = c.file
                /\ tarWalk' = Walk(Clean(tarSrc.name), fs)
        /\ ta' = [hardLinks |-> <<>>, twErr |-> Nil]
        /\ UNCHANGED <<tarSrc, addErr, untarVars, nameVars, sniffVars, codecVars,
           mainVars>>

\* One call of the function handed to filepath.Walk.  Fault "walk": Walk
\* hands it an error; the others are the faults of add.
TarWalkStep(fault) ==
    LET path == Head(tarWalk)
        r == walkFn(path, ta, tarDst, fs, data, fault)
        err == r.err
    IN  /\ tarPc = "walk"
        /\ ta' = r.ta
        /\ data' = r.data
        /\ IF err # Nil
           THEN /\ tarErr' = err
                /\ addErr' = err
                /\ tarPc' = "closing"
                /\ UNCHANGED tarWalk
           ELSE /\ tarWalk' = Tail(tarWalk)
                /\ tarErr' = Nil
                /\ tarPc' = IF Tail(tarWalk) = <<>> THEN "closing" ELSE "walk"
                /\ UNCHANGED addErr
        /\ UNCHANGED <<fs, tarSrc, tarDst, untarVars, nameVars, sniffVars,
                       codecVars,
                       mainVars>>

\* tarDir's return: its deferred functions close the tar writer, then
\* open the archive again when err is nil.
TarDirReturn(closeFails, reopenFails) ==
    LET closed == twClose(ta, tarDst, data, closeFails)
        o == Open(tarDst.name, fs, reopenFails)
    IN  /\ tarPc = "closing"
        /\ tarPc' = "built"
        /\ data' = closed.data
        /\ IF closed.err = Nil
           THEN tarDst' = o.file /\ tarErr' = o.err
           ELSE tarErr' = closed.err /\ UNCHANGED tarDst
        /\ UNCHANGED <<fs, tarSrc, tarWalk, ta, addErr, untarVars,
                       nameVars, sniffVars, codecVars,
                       mainVars>>

\* The members written to the archive so far.
Members == IF tarDst.nil THEN <<>> ELSE TarMembers(data[tarDst.ino])

\* Between the two runs of the program the user may delete d (as when
\* an archive is unpacked where its directory no longer is).
EnvRemoveTree ==
    /\ tarPc = "built" /\ tarErr = Nil /\ addErr = Nil
    /\ tarPc' = "ready"
    /\ fs' = [p \in {q \in DOMAIN fs : ~HasPrefix(q, <<"d", Sep>>)
                                       /\ q # <<"d">>} |-> fs[p]]
    /\ UNCHANGED <<data, tarSrc, tarWalk, ta, tarErr, tarDst, addErr,
                   untarVars, nameVars, sniffVars, codecVars,
                   mainVars>>

\* untar(file) up to its loop, on a complete archive.  Fault: "stat".
UntarStart(fault) ==
    LET name == BaseName(tarDst.name)
        originName == TrimSuffix(name, <<".tar">>)
    IN  /\ tarPc \in {"built", "ready"} /\ tarErr = Nil /\ addErr = Nil
        /\ IF fault.at = "stat"
           THEN /\ tarPc' = "done"
                /\ untarRet' = [err |-> "ErrStat", text |-> Empty]
                /\ UNCHANGED <<untarOrigin, untarDstName>>
           ELSE /\ tarPc' = "loop"
                /\ untarOrigin' = originName
                /\ untarDstName' = genUnusedFilename(originName, fs)
                /\ UNCHANGED untarRet
        /\ injected' = (fault.at # "none")
        /\ UNCHANGED <<fs, data, tarSrc, tarWalk, ta, tarErr, tarDst, addErr,
                       untarIdx, untarErr, made, failedAt,
                       nameVars, sniffVars, codecVars,
                       mainVars>>

\* One turn of untar's loop: tr.Next(), then the switch on the member.
\* Fault "next": the header cannot be read; the others are extract's.
UntarNext(fault) ==
    LET hdr == Members[untarIdx + 1]
        name == memberName(hdr, untarOrigin, untarDstName)
        r == extract(hdr, name, fs, data, fault)
    IN  /\ tarPc = "loop"
        /\ injected' = (injected \/ fault.at # "none")
        /\ IF fault.at = "next"
           THEN /\ untarErr' = "ErrNext"
                /\ tarPc' = "after"
                /\ UNCHANGED <<fs, data, untarIdx, made, failedAt>>
           ELSE IF untarIdx = Len(Members)
           THEN /\ untarErr' = Nil
                /\ tarPc' = "after"
                /\ UNCHANGED <<fs, data, untarIdx, made, failedAt>>
           ELSE /\ untarErr' = r.err
                /\ tarPc' = afterSwitch(r.err)
                /\ fs' = r.fs
                /\ data' = r.data
                /\ untarIdx' = untarIdx + 1
                /\ made' = Append(made, r.path)
                /\ failedAt' = IF failedAt = 0 /\ r.err # Nil
                               THEN untarIdx + 1 ELSE failedAt
        /\ UNCHANGED <<tarSrc, tarWalk, ta, tarErr, tarDst, addErr,
                       untarOrigin, untarDstName, untarRet,
                       nameVars, sniffVars, codecVars,
                       mainVars>>

\* untar's return after the loop.
UntarReturn ==
    /\ tarPc = "after"
    /\ tarPc' = "done"
    /\ untarRet' = IF untarErr # Nil
                   THEN [err |-> untarErr, text |-> BaseName(tarDst.name)]
                   ELSE [err |-> Nil, text |-> Empty]
    /\ UNCHANGED <<fs, data, tarSrc, tarWalk, ta, tarErr, tarDst, addErr,
                   untarOrigin, untarDstName, untarIdx, untarErr, made,
                   failedAt, injected, nameVars, sniffVars, codecVars,
                   mainVars>>

AddFaults ==
    Faults({"walk", "lstat", "readlink", "header", "writeheader", "open",
            "flush"}, {"copyread", "copywrite"}, 0)

ExtractFaults ==
    Faults({"next", "mkdir", "create", "link", "symlink"}, {"copy"}, 0)

NextTar ==
    \/ \E fault \in Faults({"stat", "create"}, {}, 0) : TarDirStart(fault)
    \/ \E fault \in AddFaults : TarWalkStep(fault)
    \/ \E closeFails, reopenFails \in BOOLEAN :
          TarDirReturn(closeFails, reopenFails)
    \/ EnvRemoveTree
    \/ \E fault \in Faults({"stat"}, {}, 0) : UntarStart(fault)
    \/ \E fault \in ExtractFaults : UntarNext(fault)
    \/ UntarReturn

SpecTar == InitTar /\ [][NextTar]_vars

\* The inode in d of the file a member was made from.
InodeOf(m) == fs[Clean(m.name)].ino

\* C5: in the archive tarDir is building, a regular file of an inode with
\* several names is written with its body once, by its first name in walk
\* order; every later name of that inode is a hard link member of size 0
\* whose target is that first name, written before it.
HardlinkDedup ==
    tarPc \in {"walk", "closing", "built"} =>
        \A i \in 1..Len(Members) :
            LET m == Members[i]
                earlier == {j \in 1..(i - 1) :
                               /\ Members[j].typeflag \in {"reg", "link"}
                               /\ InodeOf(Members[j]) = InodeOf(m)}
            IN  /\ (m.typeflag = "reg" /\ Nlink(InodeOf(m), fs) > 1)
                       => earlier = {}
                /\ m.typeflag = "link" =>
                       /\ m.size = 0 /\ m.body = Empty
                       /\ earlier # {}
                       /\ Members[Min(earlier)].typeflag = "reg"
                       /\ Members[Min(earlier)].name = m.linkname
                /\ (fs[Clean(m.name)].kind = "reg" /\ earlier # {})
                       => m.typeflag = "link"

\* Three names of one inode: a regular member and two hard links to it.
HardlinkDedupWitness ==
    /\ tarPc = "built" /\ tarErr = Nil /\ Len(Members) = 4
    /\ Members[2].typeflag = "reg" /\ Members[2].body # Empty
    /\ Members[3].typeflag = "link" /\ Members[4].typeflag = "link"
    /\ Members[4].linkname = Members[2].name

\* C9: when an add fails during the walk, tarDir returns that error.
BuildAborts ==
    (tarPc = "built" /\ addErr # Nil) => tarErr = addErr

\* C3: when untar has run with no call refused by the system, every hard
\* link member shares its inode with the file this run made for its
\* target, and when the root was taken every path made lies under the
\* root allocated in its place.
HardlinksKept ==
    (tarPc = "done" /\ ~injected /\ untarRet.err = Nil) =>
        \A i \in 1..Len(Members) :
            /\ Members[i].typeflag = "link" =>
                  \E j \in 1..(i - 1) :
                      /\ Members[j].name = Members[i].linkname
                      /\ made[i] \in DOMAIN fs /\ made[j] \in DOMAIN fs
                      /\ fs[made[i]].ino = fs[made[j]].ino
            /\ HasPrefix(made[i] \o <<Sep>>, untarDstName \o <<Sep>>)

\* C8: when making a member fails, untar stops at that member and returns
\* an error that names the archive.
ExtractionAborts ==
    (tarPc = "done" /\ failedAt # 0) =>
        /\ untarIdx = failedAt
        /\ untarRet.err # Nil
        /\ untarRet.text = BaseName(tarDst.name)

-----------------------------------------------------------------------------
(* main over a command line of a file f, a directory d and the archives    *)
(* the program makes of them, after init() has found no -q and no -a; the  *)
(* system may fail any one call of each function analyze calls.            *)

\* Most inputs on the command line.
MaxInputs == 2
\* The entries of a walk, and the members of an archive, at which a call
\* may be failed.
MaxFaultStep == 2

\* os.Args[0]
ProgName == <<"sz">>

MainInputs ==
    {<<"f">>, <<"d">>, <<"f", ".sz">>, <<"d", ".tar", ".sz">>}

RECURSIVE Lists(_, _)
Lists(S, n) ==
    IF n = 0 THEN {<<>>}
    ELSE {<<x>> \o l : x \in S, l \in Lists(S, n - 1)}

AnalyzeFaults ==
    {NoFaults, [NoFaults EXCEPT !.open = TRUE],
     [NoFaults EXCEPT !.close = TRUE], [NoFaults EXCEPT !.reopen = TRUE]}
    \cup {[NoFaults EXCEPT !.unsnap = Fault(at, 0)] :
             at \in {"stat", "create", "copy", "reopen"}}
    \cup {[NoFaults EXCEPT !.untar = Fault(at, k)] :
             at \in {"stat", "next", "mkdir", "create", "copy", "link",
                     "symlink"},
             k \in 1..MaxFaultStep}
    \cup {[NoFaults EXCEPT !.tarDir = Fault(at, k)] :
             at \in {"stat", "create", "walk", "lstat", "readlink", "header",
                     "writeheader", "open", "copyread", "copywrite", "flush"},
             k \in 1..MaxFaultStep}
    \cup {[NoFaults EXCEPT !.snap = Fault(at, 0)] :
             at \in {"stat", "create", "read", "write", "reopen"}}
    \cup {[NoFaults EXCEPT !.snap = Fault(at, 0), !.safe = Fault(at2, 0)] :
             at \in {"read", "write"},
             at2 \in {"stat", "create", "copy", "flush", "reopen"}}

InitMain ==
    /\ fs = (<<"f">> :> RegNode(1)) @@ (<<"d">> :> DirNode(2))
               @@ (<<"d", Sep, "a">> :> RegNode(3))
    /\ data = (1 :> <<65>>) @@ (3 :> <<66>>)
    /\ mainPc = "loop"
    /\ trgtFiles \in UNION {Lists(MainInputs, n) : n \in 1..MaxInputs}
    /\ results = <<>>
    /\ out = <<>>
    /\ osArgs = <<ProgName>> \o trgtFiles
    /\ doQuiet = FALSE
    /\ dstArchive = Empty
    /\ doSingleArchive = FALSE
    /\ exitStatus = "none"
    /\ NameIdle /\ nameAsked = Empty
    /\ SniffIdle
    /\ CodecIdle
    /\ TarIdle

\* One turn of main's loop: err := analyze(f), and the error printed.
MainAnalyze(flt) ==
    /\ mainPc = "loop"
    /\ Len(results) < Len(trgtFiles)
    /\ With(analyze(trgtFiles[Len(results) + 1], fs, data, flt), LAMBDA r :
          /\ results' = Append(results,
                               [err |-> r.err, panic |-> r.panic,
                                branch |-> r.branch, interm |-> r.interm,
                                depErr |-> r.depErr, kept |-> r.kept])
          /\ fs' = r.fs
          /\ data' = r.data
          /\ mainPc' = IF r.panic THEN "panic" ELSE "loop"
          /\ out' = IF r.panic \/ r.err = Nil \/ doQuiet THEN out
                    ELSE Append(out, r.err))
    /\ UNCHANGED <<trgtFiles, flagVars, exitStatus, nameVars, sniffVars,
                   codecVars, tarVars>>

\* main's deferred os.Exit(0): at the end of the loop, or when a panic
\* unwinds main.
MainExit ==
    /\ \/ mainPc = "loop" /\ Len(results) = Len(trgtFiles)
       \/ mainPc = "panic"
    /\ mainPc' = "exited"
    /\ exitStatus' = "0"
    /\ UNCHANGED <<fsVars, trgtFiles, results, out, flagVars, nameVars,
                   sniffVars, codecVars, tarVars>>

NextMain ==
    \/ \E flt \in AnalyzeFaults : MainAnalyze(flt)
    \/ MainExit

SpecMain == InitMain /\ [][NextMain]_vars

\* C7: when main has exited, analyze has been called on every input and
\* has returned a result, an error or nil, for each of them.
BatchIsolation ==
    mainPc = "exited" =>
        /\ Len(results) = Len(trgtFiles)
        /\ \A i \in 1..Len(results) : ~results[i].panic

\* C10: when the step that uses the intermediate archive of an analyze
\* (untar of the decompressed tar, compression of the built tar) has
\* failed, the archive is still there when analyze ends.
IntermediateKept ==
    \A i \in 1..Len(results) :
        (results[i].interm # Empty /\ results[i].depErr # Nil)
            => results[i].kept

-----------------------------------------------------------------------------
(* splitExt and genUnusedFilename on names that end in chains of           *)
(* extensions: every chain of up to MaxExts extensions after f or d/f, in  *)
(* a tree where the name is taken.                                         *)

\* Most extensions in a name.
MaxExts == 3

RECURSIVE ExtChains(_)
ExtChains(n) ==
    IF n = 0 THEN {Empty}
    ELSE ExtChains(n - 1)
            \cup {c \o <<e>> : c \in {x \in ExtChains(n - 1) : Len(x) = n - 1},
                               e \in DotToks}

SplitNames ==
    {stem \o c : stem \in {<<"f">>, <<"d", Sep, "f">>},
                 c \in ExtChains(MaxExts)}

InitSplit ==
    /\ \E c \in SplitNames, slash \in BOOLEAN :
          \* the name as the user wrote it, maybe with a trailing separator
          /\ nameAsked = IF slash THEN c \o <<Sep>> ELSE c
          /\ fs = (c :> RegNode(1)) @@ (<<"d">> :> DirNode(2))
          /\ data = (1 :> Empty)
    /\ NameIdle
    /\ SniffIdle
    /\ CodecIdle
    /\ TarIdle
    /\ MainIdle

\* base, ext := splitExt(c)
SplitRun(c) ==
    /\ nameOp = "none"
    /\ nameOp' = "split"
    /\ splitRes' = splitExt(c)
    /\ UNCHANGED <<nameAsked, nameGot, nameExisted, nameErr, nameMade,
                   fsVars, sniffVars, codecVars, tarVars, mainVars>>

\* genUnusedFilename(&c), after the split was looked at
SplitProbe(c) ==
    /\ nameOp = "split"
    /\ nameOp' = "probe"
    /\ nameGot' = genUnusedFilename(c, fs)
    /\ nameExisted' = exists(genUnusedFilename(c, fs), fs)
    /\ UNCHANGED <<nameAsked, nameErr, nameMade, splitRes,
                   fsVars, sniffVars, codecVars, tarVars, mainVars>>

NextSplit == SplitRun(nameAsked) \/ SplitProbe(nameAsked)

SpecSplit == InitSplit /\ [][NextSplit]_vars

\* An extension splitExt goes past: one with a known media type, or one of
\* .tar and .sz.
Strippable(e) == TypeByExtension(<<e>>) # "" \/ <<e>> \in AllowList

\* C11 (amended): splitExt removes the trailing extensions for as long as
\* the extension has a known media type or is .tar or .sz, and stops at
\* the first extension that has neither (it stays in the base); base and
\* ext make up the clean name, and genUnusedFilename puts the number
\* between them.
SplitStripsKnown ==
    nameOp \in {"split", "probe"} =>
        /\ splitRes.base \o splitRes.ext = Clean(nameAsked)
        /\ \A k \in 1..Len(splitRes.ext) : Strippable(splitRes.ext[k])
        /\ Ext(splitRes.base) # Empty => ~Strippable(Ext(splitRes.base)[1])
        /\ nameOp = "probe" =>
              nameGot = splitRes.base \o <<"(", "1", ")">> \o splitRes.ext

\* f.xyz.txt.sz: .sz and .txt are removed, .xyz stops the loop.
SplitWitness ==
    /\ nameOp = "probe"
    /\ nameAsked = <<"f", ".xyz", ".txt", ".sz">>
    /\ splitRes = [base |-> <<"f", ".xyz">>, ext |-> <<".txt", ".sz">>]
    /\ nameGot = <<"f", ".xyz", "(", "1", ")", ".txt", ".sz">>

\* C11: splitExt removes the trailing extensions for as long as the
\* extension has no known media type or is .tar or .sz, and stops at the
\* first extension with a known ordinary media type, which stays in the
\* base; genUnusedFilename puts the number between that base and the
\* chain removed.
SplitStopsAtKnown ==
    nameOp \in {"split", "probe"} =>
        /\ splitRes.base \o splitRes.ext = Clean(nameAsked)
        /\ \A k \in 1..Len(splitRes.ext) :
              \/ TypeByExtension(<<splitRes.ext[k]>>) = ""
              \/ <<splitRes.ext[k]>> \in AllowList
        /\ Ext(splitRes.base) # Empty =>
              /\ TypeByExtension(Ext(splitRes.base)) # ""
              /\ Ext(splitRes.base) \notin AllowList
        /\ nameOp = "probe" =>
              nameGot = splitRes.base \o <<"(", "1", ")">> \o splitRes.ext

-----------------------------------------------------------------------------
(* init() and main over command lines of up to MaxArgs arguments: chkHelp, *)
(* flags with flag.Parse, filter and slcHas, then main's loop.             *)

\* Most arguments on the command line.
MaxArgs == 3

\* The arguments a command line is made of.
ArgToks ==
    {<<"-q">>, <<"-a">>, <<"-s">>, <<"-h">>, <<"--">>, <<"f">>, <<"d">>}

\* The words chkHelp takes for a request for help.
HelpWords ==
    {<<w>> : w \in {"-h", "h", "help", "--help", "-H", "H", "HELP", "--HELP",
                    "-help", "--h", "--H"}}

\* The flags flags() defines, by the argument that names them, and whether
\* they are boolean.
Defined == (<<"-q">> :> "bool") @@ (<<"-a">> :> "string")

\* Whether flag.Parse takes an argument for a flag: it begins with a dash
\* and is longer than the dash.
IsFlag(s) == s \in {<<"-q">>, <<"-a">>, <<"-s">>, <<"-h">>}

\* flag.Parse over the arguments left: it stops at the first argument that
\* is not a flag and at "--"; a boolean flag is set, a string flag takes
\* the next argument. An undefined flag or a missing value ends the
\* process with status 2, -h with the status the toolchain gives ErrHelp.
RECURSIVE Parse(_, _, _, _)
Parse(args, q, a, helpStatus) ==
    IF args = <<>> THEN [exit |-> "none", doQuiet |-> q, dstArchive |-> a]
    ELSE IF ~IsFlag(args[1])
    THEN [exit |-> "none", doQuiet |-> q, dstArchive |-> a]
    ELSE IF args[1] \notin DOMAIN Defined
    THEN [exit |-> IF args[1] = <<"-h">> THEN helpStatus ELSE "2",
          doQuiet |-> q, dstArchive |-> a]
    ELSE IF Defined[args[1]] = "bool"
    THEN Parse(Tail(args), TRUE, a, helpStatus)
    ELSE IF Len(args) < 2
    THEN [exit |-> "2", doQuiet |-> q, dstArchive |-> a]
    ELSE Parse(Tail(Tail(args)), q, args[2], helpStatus)

\* slcHas(slc, args...)
slcHas(slc, args) ==
    \E i \in 1..Len(slc), j \in 1..Len(args) : slc[i] = args[j]

\* filter(slc, args...): the elements s of slc for which slcHas(slc, s) is
\* false.
filter(slc, args) == SelectSeq(slc, LAMBDA s : ~slcHas(slc, <<s>>))

\* chkHelp(): the status help exits with, "none" when it returns.
chkHelp(A) ==
    IF Len(A) < 2 THEN "none"
    ELSE IF A[2] \in HelpWords THEN "0" ELSE "none"

\* flags(): the exit status if the process ends in it, and the globals it
\* leaves.
flags(A, helpStatus) ==
    IF Len(A) < 2
    THEN [exit |-> "1", doQuiet |-> FALSE, dstArchive |-> Empty,
          doSingleArchive |-> FALSE, trgtFiles |-> <<>>]
    ELSE With(Parse(Tail(A), FALSE, Empty, helpStatus), LAMBDA p :
            With(IF p.doQuiet THEN filter(Tail(A), <<<<"-s">>, <<"-q">>>>)
                 ELSE Tail(A), LAMBDA t :
                [exit |-> p.exit,
                 doQuiet |-> p.doQuiet,
                 dstArchive |-> p.dstArchive,
                 doSingleArchive |-> p.exit = "none" /\ p.dstArchive # Empty,
                 trgtFiles |->
                    IF p.exit # "none" THEN <<>>
                    ELSE IF p.dstArchive # Empty
                    THEN filter(t, <<p.dstArchive>>)
                    ELSE t]))

InitFlags ==
    /\ fs = (<<"f">> :> RegNode(1)) @@ (<<"d">> :> DirNode(2))
               @@ (<<"d", Sep, "a">> :> RegNode(3))
    /\ data = (1 :> <<65>>) @@ (3 :> <<66>>)
    /\ mainPc = "init"
    /\ osArgs \in {<<ProgName>> \o l :
                      l \in UNION {Lists(ArgToks, n) : n \in 0..MaxArgs}}
    /\ trgtFiles = <<>>
    /\ results = <<>>
    /\ out = <<>>
    /\ doQuiet = FALSE
    /\ dstArchive = Empty
    /\ doSingleArchive = FALSE
    /\ exitStatus = "none"
    /\ NameIdle /\ nameAsked = Empty
    /\ SniffIdle
    /\ CodecIdle
    /\ TarIdle

\* init(): chkHelp(), then flags().
ProgInit(helpStatus) ==
    /\ mainPc = "init"
    /\ IF chkHelp(osArgs) # "none"
       THEN /\ mainPc' = "exited"
            /\ exitStatus' = chkHelp(osArgs)
            /\ UNCHANGED <<trgtFiles, doQuiet, dstArchive, doSingleArchive>>
       ELSE With(flags(osArgs, helpStatus), LAMBDA r :
               /\ mainPc' = IF r.exit = "none" THEN "loop" ELSE "exited"
               /\ exitStatus' = r.exit
               /\ doQuiet' = r.doQuiet
               /\ dstArchive' = r.dstArchive
               /\ doSingleArchive' = r.doSingleArchive
               /\ trgtFiles' = r.trgtFiles)
    /\ UNCHANGED <<osArgs, results, out, fsVars, nameVars, sniffVars,
                   codecVars, tarVars>>

NextFlags ==
    \/ \E helpStatus \in {"0", "2"} : ProgInit(helpStatus)
    \/ MainAnalyze(NoFaults)
    \/ MainExit

SpecFlags == InitFlags /\ [][NextFlags]_vars

\* C12: when init() has run with -q set (and no -a), trgtFiles is the
\* arguments, in their order, without those equal to "-s" or "-q"; so
\* every other argument is an input of main's loop, and when main has
\* run through it analyze has been called on each of them.
QuietKeepsPaths ==
    LET kept == SelectSeq(Tail(osArgs),
                          LAMBDA s : s \notin {<<"-s">>, <<"-q">>})
    IN  (mainPc \in {"loop", "exited"} /\ doQuiet /\ dstArchive = Empty
            /\ exitStatus \in {"none", "0"})
            => /\ trgtFiles = kept
               /\ (mainPc = "exited" /\ ~(\E i \in 1..Len(results) :
                                              results[i].panic))
                     => Len(results) = Len(kept)

=============================================================================
